---- MODULE Spec2Model ----
(***************************************************************************)
(* HC-SR04 ultrasonic driver: the shared configuration layer (IHCSR04),    *)
(* the cycle guard, the blocking polling engine (HCSR04_Polling) and the   *)
(* interrupt engine (HCSR04_Interrupt) with its edge callback.             *)
(*                                                                         *)
(* Time: micros() is an unsigned long counter that wraps at its width. The *)
(* model keeps the wrap and narrows the counter to Period values; one model    *)
(* tick stands for a block of microseconds, so a busy delay of a few       *)
(* microseconds advances the counter by 0..MaxDelay ticks.  Period is the  *)
(* counter's modulus.                                                      *)
(***************************************************************************)
EXTENDS Integers, Sequences, FiniteSets, TLC

(* ------------------------------ bounds --------------------------------- *)
Period == 6
MaxDelay == 1
MaxMinCycle == 2
MaxTimeout == 3
MaxPin == 2
TimeoutSpan == 2
MaxHigh == 8

Clock == 0 .. (Period - 1)
Delays == 0 .. MaxDelay
Pins == 0 .. MaxPin

(* --------------------------- program constants ------------------------- *)
HCSR04_TRIG_PULSE_US == 10
TimeoutMargin == 100
HCSR04_DEFAULT_TIMEOUT_US == 30000
HCSR04_DEFAULT_MIN_CYCLE_US == 60000
HCSR04_CM_PER_US == 343
SpeedLow == 200
SpeedHigh == 600

HCSR04_OK == "OK"
HCSR04_ERR_TIMEOUT_ECHO_START == "TIMEOUT_ECHO_START"
HCSR04_ERR_TIMEOUT_ECHO_END == "TIMEOUT_ECHO_END"
HCSR04_ERR_BUSY == "BUSY"
HCSR04_ERR_NOT_READY == "NOT_READY"
HCSR04_ERR_BAD_STATE == "BAD_STATE"
HCSR04_ERR_BAD_PARAM == "BAD_PARAM"
NoStatus == "NONE"
Untouched == <<>>

LOW == "LOW"
HIGH == "HIGH"

(* unsigned subtraction and addition at the clock's width *)
USub(a, b) == ((a - b) + Period) % Period
UAdd(a, b) == (a + b) % Period

VARIABLES
  engine,          \* concrete class of the device: "polling" or "interrupt"
  m_trig_pin, m_echo_pin, m_timeout_us, m_cm_per_us, m_min_cycle_us,
  m_last_shot_us,
  s_waiting_rise, s_rise_us, s_fall_us,   \* HCSR04_Interrupt statics
  attached,        \* the edge callback is registered (attachInterrupt)
  clock,           \* the value micros() returns now
  echo,            \* level of the echo line
  isr_pending,     \* a level change has raised the interrupt flag
  pc,              \* position inside read()
  t_start_us, t_rise_us, t_fall_us, now_us,   \* locals of read()
  status,          \* status returned by the last call
  out_cm,          \* the caller's output variable: <<cm>> once read() has
                   \* written cm (units of 0.5e-4 cm), Untouched while it
                   \* holds the value it had before the call
  op,              \* the last call that returned
  trig_log,        \* what the last read() did to the trigger line, in order
  sampled,         \* the last read() sampled the echo line
  captured,        \* what the callback recorded since the last read(), if
                   \* that read() armed a shot ("off" if it did not)
  harvested,       \* some read() has returned OK
  new_rise, new_fall,  \* the callback recorded a rise, a fall, since the
                   \* last read() that returned OK
  in_read,         \* fields the callback wrote inside the current read()
                   \* and read() has not looked at since
  elapsed_true,    \* true ticks since markShotStart_ (cycle guard check)
  s_instance,      \* the static back-reference: "this" or "null"
  isr_pins,        \* the pins echoChangeISR_ is registered on
  saw_level        \* the running wait of a polling read() sampled the
                   \* level it waits for

cfgVars == <<m_trig_pin, m_echo_pin, m_timeout_us, m_cm_per_us, m_min_cycle_us>>
edgeVars == <<s_waiting_rise, s_rise_us, s_fall_us>>
localVars == <<t_start_us, t_rise_us, t_fall_us, now_us>>
ghostVars == <<captured, harvested, new_rise, new_fall, in_read>>
lifeVars == <<s_instance, isr_pins>>
vars == <<engine, m_trig_pin, m_echo_pin, m_timeout_us, m_cm_per_us,
          m_min_cycle_us, m_last_shot_us, s_waiting_rise, s_rise_us,
          s_fall_us, attached, clock, echo, isr_pending, pc, t_start_us,
          t_rise_us, t_fall_us, now_us, status, out_cm, op, trig_log,
          sampled, captured, harvested, new_rise, new_fall,
          in_read, elapsed_true, s_instance, isr_pins, saw_level>>

Call(name, arg) == [name |-> name, arg |-> arg]

(* ----------------- state common to every specification ----------------- *)
(* IHCSR04::IHCSR04 stores its arguments unchecked and zeroes the last-shot *)
(* timestamp; the interrupt statics start as their definitions set them.    *)
InitCommon ==
  /\ m_last_shot_us = 0
  /\ s_waiting_rise = TRUE
  /\ s_rise_us = 0
  /\ s_fall_us = 0
  /\ attached = FALSE
  /\ echo = LOW
  /\ isr_pending = FALSE
  /\ pc = "idle"
  /\ t_start_us = 0 /\ t_rise_us = 0 /\ t_fall_us = 0 /\ now_us = 0
  /\ status = NoStatus
  /\ out_cm = Untouched
  /\ op = Call("ctor", 0)
  /\ trig_log = <<>>
  /\ sampled = FALSE
  /\ captured = "off"
  /\ harvested = FALSE /\ new_rise = FALSE /\ new_fall = FALSE
  /\ in_read = {}
  /\ elapsed_true = -1
  /\ s_instance = "null"
  /\ isr_pins = {}
  /\ saw_level = FALSE

(* ======================= Configuration & validation ===================== *)
TimeoutThreshold == HCSR04_TRIG_PULSE_US + TimeoutMargin
TimeoutArgs ==
  {0, HCSR04_DEFAULT_TIMEOUT_US}
    \cup ((TimeoutThreshold - TimeoutSpan) .. (TimeoutThreshold + TimeoutSpan))
MinCycleArgs == 0 .. MaxMinCycle
MinCycles == 1 .. MaxMinCycle
SpeedArgs == {SpeedLow, SpeedLow + 1, HCSR04_CM_PER_US, SpeedHigh - 1, SpeedHigh}

nonCfgVars == <<engine, m_last_shot_us, s_waiting_rise, s_rise_us, s_fall_us,
                attached, clock, echo, isr_pending, pc, t_start_us, t_rise_us,
                t_fall_us, now_us, out_cm, trig_log, sampled,
                captured, harvested, new_rise, new_fall, in_read, elapsed_true,
                s_instance, isr_pins, saw_level>>

TrigPinOk_Mut(trig_pin) == trig_pin # m_trig_pin
TrigPinOk(trig_pin) == trig_pin # m_echo_pin

setTrigPin(trig_pin) ==
  /\ pc = "idle"
  /\ IF TrigPinOk(trig_pin)
       THEN m_trig_pin' = trig_pin /\ status' = HCSR04_OK
       ELSE m_trig_pin' = m_trig_pin /\ status' = HCSR04_ERR_BAD_PARAM
  /\ op' = Call("setTrigPin", trig_pin)
  /\ UNCHANGED <<m_echo_pin, m_timeout_us, m_cm_per_us, m_min_cycle_us>>
  /\ UNCHANGED nonCfgVars

EchoPinOk(echo_pin) == echo_pin # m_trig_pin

setEchoPin(echo_pin) ==
  /\ pc = "idle"
  /\ IF EchoPinOk(echo_pin)
       THEN m_echo_pin' = echo_pin /\ status' = HCSR04_OK
       ELSE m_echo_pin' = m_echo_pin /\ status' = HCSR04_ERR_BAD_PARAM
  /\ op' = Call("setEchoPin", echo_pin)
  /\ UNCHANGED <<m_trig_pin, m_timeout_us, m_cm_per_us, m_min_cycle_us>>
  /\ UNCHANGED nonCfgVars

TimeoutOk_Mut(timeout_us) == timeout_us > HCSR04_TRIG_PULSE_US + TimeoutMargin
TimeoutOk(timeout_us) == timeout_us >= HCSR04_TRIG_PULSE_US + TimeoutMargin

setTimeoutUs(timeout_us) ==
  /\ pc = "idle"
  /\ IF TimeoutOk(timeout_us)
       THEN m_timeout_us' = timeout_us /\ status' = HCSR04_OK
       ELSE m_timeout_us' = m_timeout_us /\ status' = HCSR04_ERR_BAD_PARAM
  /\ op' = Call("setTimeoutUs", timeout_us)
  /\ UNCHANGED <<m_trig_pin, m_echo_pin, m_cm_per_us, m_min_cycle_us>>
  /\ UNCHANGED nonCfgVars

MinCycleOk_Mut(min_cycle_us) == TRUE
MinCycleOk(min_cycle_us) == min_cycle_us # 0

setMinCycleUs(min_cycle_us) ==
  /\ pc = "idle"
  /\ IF MinCycleOk(min_cycle_us)
       THEN m_min_cycle_us' = min_cycle_us /\ status' = HCSR04_OK
       ELSE m_min_cycle_us' = m_min_cycle_us /\ status' = HCSR04_ERR_BAD_PARAM
  /\ op' = Call("setMinCycleUs", min_cycle_us)
  /\ UNCHANGED <<m_trig_pin, m_echo_pin, m_timeout_us, m_cm_per_us>>
  /\ UNCHANGED nonCfgVars

SoundSpeedOk(cm_per_us) == (cm_per_us > SpeedLow) /\ (cm_per_us < SpeedHigh)

setSoundSpeed(cm_per_us) ==
  /\ pc = "idle"
  /\ IF SoundSpeedOk(cm_per_us)
       THEN m_cm_per_us' = cm_per_us /\ status' = HCSR04_OK
       ELSE m_cm_per_us' = m_cm_per_us /\ status' = HCSR04_ERR_BAD_PARAM
  /\ op' = Call("setSoundSpeed", cm_per_us)
  /\ UNCHANGED <<m_trig_pin, m_echo_pin, m_timeout_us, m_min_cycle_us>>
  /\ UNCHANGED nonCfgVars

InitCfg ==
  /\ InitCommon
  /\ engine \in {"polling", "interrupt"}
  /\ m_trig_pin \in Pins
  /\ m_echo_pin \in Pins
  /\ m_timeout_us \in {HCSR04_TRIG_PULSE_US, HCSR04_DEFAULT_TIMEOUT_US}
  /\ m_cm_per_us = HCSR04_CM_PER_US
  /\ m_min_cycle_us \in {0, HCSR04_DEFAULT_MIN_CYCLE_US}
  /\ clock = 0

NextCfg ==
  \/ \E p \in Pins : setTrigPin(p)
  \/ \E p \in Pins : setEchoPin(p)
  \/ \E v \in TimeoutArgs : setTimeoutUs(v)
  \/ \E v \in MinCycleArgs : setMinCycleUs(v)
  \/ \E v \in SpeedArgs : setSoundSpeed(v)

SpecCfg == InitCfg /\ [][NextCfg]_vars

C6_TimeoutThreshold ==
  [][ (op'.name = "setTimeoutUs") =>
        IF op'.arg >= HCSR04_TRIG_PULSE_US + 100
          THEN status' = HCSR04_OK /\ m_timeout_us' = op'.arg
          ELSE status' = HCSR04_ERR_BAD_PARAM /\ m_timeout_us' = m_timeout_us
    ]_vars

C6_Witness ==
  /\ op = Call("setTimeoutUs", HCSR04_TRIG_PULSE_US + 99)
  /\ status = HCSR04_ERR_BAD_PARAM
  /\ m_timeout_us = HCSR04_TRIG_PULSE_US + 100

(* C13: every setter returns OK and changes at most its own field, or      *)
(* returns Bad-param and changes no field; setMinCycleUs(0) is refused; no  *)
(* setter changes the last-shot timestamp or the edge-capture state.        *)
C13_SetterFrame ==
  [][ /\ status' \in {HCSR04_OK, HCSR04_ERR_BAD_PARAM}
      /\ (status' = HCSR04_ERR_BAD_PARAM) => UNCHANGED cfgVars
      /\ (op'.name # "setTrigPin") => m_trig_pin' = m_trig_pin
      /\ (op'.name # "setEchoPin") => m_echo_pin' = m_echo_pin
      /\ (op'.name # "setTimeoutUs") => m_timeout_us' = m_timeout_us
      /\ (op'.name # "setSoundSpeed") => m_cm_per_us' = m_cm_per_us
      /\ (op'.name # "setMinCycleUs") => m_min_cycle_us' = m_min_cycle_us
      /\ (op' = Call("setMinCycleUs", 0)) => status' = HCSR04_ERR_BAD_PARAM
      /\ UNCHANGED <<m_last_shot_us, s_waiting_rise, s_rise_us, s_fall_us>>
    ]_vars

(* setMinCycleUs(0) was refused and the interval set before it was kept *)
C13_Witness ==
  /\ op = Call("setMinCycleUs", 0)
  /\ status = HCSR04_ERR_BAD_PARAM
  /\ m_min_cycle_us = MaxMinCycle

(* C21: in every state of a device, from construction onward, the trigger   *)
(* pin differs from the echo pin, the timeout is at least the trigger pulse *)
(* width plus 100, and the minimum cycle interval is nonzero.               *)
C21_ConfigInvariants ==
  /\ m_trig_pin # m_echo_pin
  /\ m_timeout_us >= HCSR04_TRIG_PULSE_US + TimeoutMargin
  /\ m_min_cycle_us # 0

(* ============================== Cycle guard ============================= *)
(* canStartShot_: elapsed = now_us - m_last_shot_us in unsigned arithmetic. *)
Elapsed_Mut(now, last) == IF now >= last THEN now - last ELSE 0
Elapsed(now, last) == USub(now, last)

CanStartShot_Mut(now, last, min_cycle) == HCSR04_OK
CanStartShot(now, last, min_cycle) ==
  IF Elapsed(now, last) >= min_cycle THEN HCSR04_OK ELSE HCSR04_ERR_BUSY

guardFrame ==
  UNCHANGED <<engine, m_trig_pin, m_echo_pin, m_timeout_us, m_cm_per_us,
              m_min_cycle_us, s_waiting_rise, s_rise_us, s_fall_us, attached,
              echo, isr_pending, pc, t_start_us, t_rise_us, t_fall_us, now_us,
              out_cm, trig_log, sampled, captured, harvested,
              new_rise, new_fall, in_read, lifeVars, saw_level>>

(* markShotStart_: read() of either engine calls it only when the          *)
(* canStartShot_ just before it returned OK                                 *)
markShotStart_ ==
  /\ op.name = "canStartShot_" /\ status = HCSR04_OK
  /\ m_last_shot_us' = clock
  /\ elapsed_true' = 0
  /\ op' = Call("markShotStart_", 0)
  /\ UNCHANGED <<clock, status>>
  /\ guardFrame

(* canStartShot_ *)
canStartShot_ ==
  /\ status' = CanStartShot(clock, m_last_shot_us, m_min_cycle_us)
  /\ op' = Call("canStartShot_", 0)
  /\ UNCHANGED <<clock, m_last_shot_us, elapsed_true>>
  /\ guardFrame

(* d ticks of time pass; the true elapsed time is followed up to two periods *)
GuardTick(d) ==
  /\ IF elapsed_true < 0 THEN TRUE ELSE elapsed_true + d < 2 * Period
  /\ clock' = UAdd(clock, d)
  /\ elapsed_true' = IF elapsed_true < 0 THEN elapsed_true ELSE elapsed_true + d
  /\ op' = Call("tick", d)
  /\ UNCHANGED <<m_last_shot_us, status>>
  /\ guardFrame

InitGuard ==
  /\ InitCommon
  /\ engine \in {"polling", "interrupt"}
  /\ m_trig_pin = 0 /\ m_echo_pin = 1
  /\ m_timeout_us = HCSR04_DEFAULT_TIMEOUT_US
  /\ m_cm_per_us = HCSR04_CM_PER_US
  /\ m_min_cycle_us \in Clock
  /\ clock \in Clock

NextGuard ==
  \/ markShotStart_
  \/ canStartShot_
  \/ \E d \in 1 .. (Period - 1) : GuardTick(d)

SpecGuard == InitGuard /\ [][NextGuard]_vars

(* C4: with a nonzero minimum cycle, canStartShot_ at the clock value of    *)
(* markShotStart_ returns Busy; for every last-shot timestamp and true      *)
(* elapsed time e below the clock period it returns OK iff e >= minimum     *)
(* cycle, also when the clock wrapped past zero in between.                 *)
C4_GuardWrapSafe ==
  (op.name = "canStartShot_" /\ elapsed_true >= 0 /\ elapsed_true < Period) =>
     /\ (status = HCSR04_OK) <=> (elapsed_true >= m_min_cycle_us)
     /\ (elapsed_true = 0 /\ m_min_cycle_us # 0) => status = HCSR04_ERR_BUSY

(* the clock wrapped since the mark and the guard still answers Busy *)
C4_Witness ==
  /\ op.name = "canStartShot_"
  /\ elapsed_true > 0 /\ elapsed_true < Period
  /\ clock < m_last_shot_us
  /\ m_last_shot_us = Period - 1
  /\ status = HCSR04_ERR_BUSY

(* C17: the cycle guard refuses a shot only when a shot was started less    *)
(* than the minimum cycle interval of true time earlier: never before the   *)
(* first shot, whatever the clock shows, and never after a longer idle      *)
(* time.                                                                    *)
C17_RefusesOnlyAfterShot ==
  [][ (canStartShot_ /\ status' = HCSR04_ERR_BUSY)
      => (elapsed_true >= 0 /\ elapsed_true < m_min_cycle_us) ]_vars

(* C18: with a nonzero minimum cycle interval, a shot start that follows    *)
(* another one is at least that interval of true time after it, also when   *)
(* the clock wrapped in between.                                            *)
C18_ShotsApart ==
  [][ (markShotStart_ /\ elapsed_true >= 0 /\ m_min_cycle_us # 0)
      => elapsed_true >= m_min_cycle_us ]_vars

(* a second shot was started after the clock had wrapped past the first *)
C18_Witness ==
  /\ op.name = "markShotStart_"
  /\ elapsed_true = 0
  /\ m_min_cycle_us = Period - 1
  /\ m_last_shot_us = Period - 3
  /\ status = HCSR04_OK

(* =========================== Distance conversion ======================== *)
(* timeUsToCm_: the distance is kept in units of 0.5e-4 cm, the speed in    *)
(* units of 1e-4 cm/us, so that (high * speed) * 0.5 cm is high * speed.    *)
TimeUsToCm_Mut(echo_high_us, cm_per_us) ==
  [status |-> HCSR04_OK, cm |-> echo_high_us * cm_per_us]
TimeUsToCm(echo_high_us, cm_per_us) ==
  IF echo_high_us # 0
    THEN [status |-> HCSR04_OK, cm |-> echo_high_us * cm_per_us]
    ELSE [status |-> HCSR04_ERR_BAD_PARAM, cm |-> 0]

(* read() copies tmp_cm to the caller's variable only on HCSR04_OK *)
OutWrite_Mut(st, cm, old) == <<cm>>
OutWrite(st, cm, old) == IF st = HCSR04_OK THEN <<cm>> ELSE old

(* timeUsToCm_ called on its own: out_cm is the reference it is given *)
HighTimes == 0 .. MaxHigh

timeUsToCm_(echo_high_us) ==
  /\ pc = "idle"
  /\ LET conv == TimeUsToCm(echo_high_us, m_cm_per_us)
     IN  /\ status' = conv.status
         /\ out_cm' = IF conv.status = HCSR04_OK THEN <<conv.cm>> ELSE out_cm
  /\ op' = Call("timeUsToCm_", echo_high_us)
  /\ UNCHANGED <<engine, cfgVars, m_last_shot_us, edgeVars, attached, clock,
                 echo, isr_pending, pc, localVars, trig_log, sampled,
                 ghostVars, elapsed_true, lifeVars, saw_level>>

InitConv ==
  /\ InitCommon
  /\ engine \in {"polling", "interrupt"}
  /\ m_trig_pin = 0 /\ m_echo_pin = 1
  /\ m_timeout_us = HCSR04_DEFAULT_TIMEOUT_US
  /\ m_cm_per_us \in SpeedArgs
  /\ m_min_cycle_us = HCSR04_DEFAULT_MIN_CYCLE_US
  /\ clock = 0

NextConv == \E h \in HighTimes : timeUsToCm_(h)

SpecConv == InitConv /\ [][NextConv]_vars

(* C12: timeUsToCm_(high_time) returns OK and writes high_time * speed / 2  *)
(* for every high_time > 0, the written value depending on nothing but the  *)
(* high time and the speed; for high_time = 0 it returns Bad-param and      *)
(* leaves the output as it was.                                             *)
C12_Conversion ==
  [][ \A h \in HighTimes :
        timeUsToCm_(h) =>
          IF h > 0
            THEN status' = HCSR04_OK /\ out_cm' = <<h * m_cm_per_us>>
            ELSE status' = HCSR04_ERR_BAD_PARAM /\ out_cm' = out_cm
    ]_vars

(* a zero high time was refused after an earlier conversion had written *)
C12_Witness ==
  /\ op = Call("timeUsToCm_", 0)
  /\ status = HCSR04_ERR_BAD_PARAM
  /\ out_cm \in {<<h * m_cm_per_us>> : h \in 1 .. MaxHigh}

(* ============================== Environment ============================= *)
(* the free-running microsecond counter advances by one tick *)
Tick ==
  /\ clock' = UAdd(clock, 1)
  /\ UNCHANGED <<engine, cfgVars, m_last_shot_us, edgeVars, attached, echo,
                 isr_pending, pc, localVars, status, out_cm, op,
                 trig_log, sampled, ghostVars, elapsed_true, lifeVars,
                 saw_level>>

(* the echo line changes level; a registered CHANGE interrupt is flagged *)
EchoEdge ==
  /\ echo' = IF echo = LOW THEN HIGH ELSE LOW
  /\ isr_pending' = (isr_pending \/ attached)
  /\ UNCHANGED <<engine, cfgVars, m_last_shot_us, edgeVars, attached, clock,
                 pc, localVars, status, out_cm, op, trig_log, sampled,
                 ghostVars, elapsed_true, lifeVars, saw_level>>

(* ============================ Interrupt engine ========================== *)
TrigPulse == <<LOW, HIGH, LOW>>

(* HCSR04_Interrupt::begin *)
IntBegin ==
  /\ engine = "interrupt" /\ pc = "idle"
  /\ s_waiting_rise' = TRUE /\ s_rise_us' = 0 /\ s_fall_us' = 0
  /\ s_instance' = "this"
  /\ isr_pins' = isr_pins \cup {m_echo_pin}
  /\ attached' = TRUE
  /\ status' = HCSR04_OK
  /\ op' = Call("begin", 0)
  /\ captured' = "off"
  /\ UNCHANGED <<engine, cfgVars, m_last_shot_us, clock, echo, isr_pending, pc,
                 localVars, out_cm, trig_log, sampled, harvested,
                 new_rise, new_fall, in_read,
                 elapsed_true, saw_level>>

(* what the callback does to the edge-capture state at level lv, time now *)
IsrRecordsRise_Mut(wr, lv) == lv = HIGH
IsrRecordsRise(wr, lv) == wr /\ lv = HIGH
IsrRecordsFall(wr, lv) == (~wr) /\ lv = LOW

(* HCSR04_Interrupt::echoChangeISR_, lines 110-127, at echo level lv *)
IsrBody(lv) ==
  /\ IF IsrRecordsRise(s_waiting_rise, lv)
       THEN /\ s_rise_us' = clock /\ s_waiting_rise' = FALSE
            /\ s_fall_us' = s_fall_us
            /\ new_rise' = TRUE /\ new_fall' = new_fall
            /\ captured' = CASE captured = "off" -> "off"
                              [] captured = "none" -> "rise"
                              [] OTHER -> "other"
       ELSE IF IsrRecordsFall(s_waiting_rise, lv)
         THEN /\ s_fall_us' = clock /\ s_waiting_rise' = TRUE
              /\ s_rise_us' = s_rise_us
              /\ new_fall' = TRUE /\ new_rise' = new_rise
              /\ captured' = CASE captured = "off" -> "off"
                                [] captured = "rise" -> "rise_fall"
                                [] OTHER -> "other"
         ELSE UNCHANGED <<s_waiting_rise, s_rise_us, s_fall_us, new_rise,
                          new_fall, captured>>
  /\ isr_pending' = FALSE

(* line 109 with a valid back-reference: the level of the echo pin *)
IsrStep == IsrBody(echo)

echoChangeISR_ ==
  /\ engine = "interrupt" /\ isr_pending /\ pc = "idle"
  /\ s_instance = "this"
  /\ IsrStep
  /\ UNCHANGED <<engine, cfgVars, m_last_shot_us, attached, clock, echo, pc,
                 localVars, status, out_cm, op, trig_log, sampled,
                 harvested, in_read, elapsed_true, lifeVars, saw_level>>

(* the timestamps read() harvests from after an optional reset *)
ReadyPair_Mut(rise, fall) == TRUE
ReadyPair(rise, fall) == (rise # 0) /\ (fall # 0)

ArmResets_Mut(arm) == TRUE
ArmResets(arm) == arm

HarvestClears_Mut(ready) == FALSE
HarvestClears(ready) == ready

(* HCSR04_Interrupt::read, run without preemption.  d1: the ticks the       *)
(* trigger delays take; canStartShot_ and markShotStart_ read the same tick. *)
IntRead(d1) ==
  /\ engine = "interrupt" /\ pc = "idle"
  /\ LET guard == CanStartShot(clock, m_last_shot_us, m_min_cycle_us)
         arm == (guard = HCSR04_OK)
         rise1 == IF ArmResets(arm) THEN 0 ELSE s_rise_us
         fall1 == IF ArmResets(arm) THEN 0 ELSE s_fall_us
         ready == ReadyPair(rise1, fall1)
         conv == TimeUsToCm(USub(fall1, rise1), m_cm_per_us)
         st == IF ready THEN conv.status ELSE HCSR04_ERR_NOT_READY
     IN  /\ arm \/ d1 = 0
         /\ m_last_shot_us' = IF arm THEN clock ELSE m_last_shot_us
         /\ clock' = IF arm THEN UAdd(clock, d1) ELSE clock
         /\ s_waiting_rise' = IF ArmResets(arm) THEN TRUE ELSE s_waiting_rise
         /\ s_rise_us' = IF HarvestClears(ready) THEN 0 ELSE rise1
         /\ s_fall_us' = IF HarvestClears(ready) THEN 0 ELSE fall1
         /\ trig_log' = IF arm THEN <<"mark", "reset">> \o TrigPulse ELSE <<>>
         /\ status' = st
         /\ out_cm' = IF ready THEN OutWrite(conv.status, conv.cm, Untouched)
                               ELSE Untouched
         /\ captured' = IF arm THEN "none" ELSE "off"
         /\ harvested' = (harvested \/ st = HCSR04_OK)
         /\ new_rise' = IF st = HCSR04_OK THEN FALSE ELSE new_rise
         /\ new_fall' = IF st = HCSR04_OK THEN FALSE ELSE new_fall
  /\ op' = Call("read", 0)
  /\ sampled' = FALSE
  /\ UNCHANGED <<engine, cfgVars, attached, echo, isr_pending, pc, localVars,
                 in_read, elapsed_true, lifeVars, saw_level>>

(* ============================= Polling engine =========================== *)
pollFrame ==
  UNCHANGED <<engine, cfgVars, edgeVars, attached, echo, isr_pending,
              ghostVars, elapsed_true, lifeVars>>

(* HCSR04_Polling::begin *)
PollBegin ==
  /\ engine = "polling" /\ pc = "idle"
  /\ status' = HCSR04_OK
  /\ op' = Call("begin", 0)
  /\ UNCHANGED <<m_last_shot_us, clock, pc, localVars, out_cm, trig_log,
                 sampled, saw_level>>
  /\ pollFrame

(* status of a read() the cycle guard denies: the initial value of status *)
DeniedStatus == HCSR04_ERR_BAD_STATE

PollGuard_Mut(now, last, min_cycle) == HCSR04_OK
PollGuard(now, last, min_cycle) == CanStartShot(now, last, min_cycle)

(* the loop condition of both waits *)
InWindow_Mut(now, t_start, timeout) == TRUE
InWindow(now, t_start, timeout) == USub(now, t_start) < timeout

(* read(): cycle guard, markShotStart_, trigger pulse, t_start_us, now_us.  *)
(* d1, d2: ticks that pass during the trigger delays and between the two    *)
(* micros() of lines 52 and 56; canStartShot_ and markShotStart_ read the   *)
(* same tick.                                                               *)
PollReadStart(d1, d2) ==
  /\ engine = "polling" /\ pc = "idle"
  /\ IF PollGuard(clock, m_last_shot_us, m_min_cycle_us) = HCSR04_OK
       THEN /\ m_last_shot_us' = clock
            /\ trig_log' = <<"mark">> \o TrigPulse
            /\ t_start_us' = UAdd(clock, d1)
            /\ now_us' = UAdd(clock, d1 + d2)
            /\ clock' = UAdd(clock, d1 + d2)
            /\ t_rise_us' = 0
            /\ pc' = "rise_wait"
            /\ UNCHANGED <<t_fall_us, status, op>>
       ELSE /\ d1 = 0 /\ d2 = 0
            /\ status' = DeniedStatus
            /\ trig_log' = <<>>
            /\ op' = Call("read", 0)
                      /\ UNCHANGED <<m_last_shot_us, clock, pc, localVars>>
  /\ out_cm' = Untouched
  /\ sampled' = FALSE
  /\ saw_level' = FALSE
  /\ pollFrame

(* one iteration of the rise wait: sample the echo line, re-read the clock *)
PollRiseLoop ==
  /\ engine = "polling" /\ pc = "rise_wait"
  /\ InWindow(now_us, t_start_us, m_timeout_us) /\ t_rise_us = 0
  /\ t_rise_us' = IF echo = HIGH THEN now_us ELSE t_rise_us
  /\ now_us' = clock
  /\ sampled' = TRUE
  /\ saw_level' = (saw_level \/ echo = HIGH)
  /\ UNCHANGED <<m_last_shot_us, clock, pc, t_start_us, t_fall_us, status,
                 out_cm, op, trig_log>>
  /\ pollFrame

(* the rise wait ends: timeout, or go on to the fall wait *)
PollRiseExit ==
  /\ engine = "polling" /\ pc = "rise_wait"
  /\ ~(InWindow(now_us, t_start_us, m_timeout_us) /\ t_rise_us = 0)
  /\ IF t_rise_us = 0
       THEN /\ status' = HCSR04_ERR_TIMEOUT_ECHO_START
            /\ op' = Call("read", 0)
                      /\ pc' = "idle"
            /\ t_start_us' = 0 /\ t_rise_us' = 0 /\ t_fall_us' = 0 /\ now_us' = 0
       ELSE /\ t_fall_us' = 0
            /\ now_us' = clock
            /\ pc' = "fall_wait"
            /\ UNCHANGED <<t_start_us, t_rise_us, status, op>>
  /\ saw_level' = FALSE
  /\ UNCHANGED <<m_last_shot_us, clock, out_cm, trig_log, sampled>>
  /\ pollFrame

(* one iteration of the fall wait *)
PollFallLoop ==
  /\ engine = "polling" /\ pc = "fall_wait"
  /\ InWindow(now_us, t_start_us, m_timeout_us) /\ t_fall_us = 0
  /\ t_fall_us' = IF echo = LOW THEN now_us ELSE t_fall_us
  /\ now_us' = clock
  /\ sampled' = TRUE
  /\ saw_level' = (saw_level \/ echo = LOW)
  /\ UNCHANGED <<m_last_shot_us, clock, pc, t_start_us, t_rise_us, status,
                 out_cm, op, trig_log>>
  /\ pollFrame

(* the fall wait ends: timeout, or convert the high time and return *)
PollFallExit ==
  /\ engine = "polling" /\ pc = "fall_wait"
  /\ ~(InWindow(now_us, t_start_us, m_timeout_us) /\ t_fall_us = 0)
  /\ LET conv == TimeUsToCm(USub(t_fall_us, t_rise_us), m_cm_per_us)
     IN  IF t_fall_us = 0
           THEN status' = HCSR04_ERR_TIMEOUT_ECHO_END /\ out_cm' = out_cm
           ELSE /\ status' = conv.status
                /\ out_cm' = OutWrite(conv.status, conv.cm, out_cm)
  /\ op' = Call("read", 0)
  /\ pc' = "idle"
  /\ t_start_us' = 0 /\ t_rise_us' = 0 /\ t_fall_us' = 0 /\ now_us' = 0
  /\ saw_level' = FALSE
  /\ UNCHANGED <<m_last_shot_us, clock, trig_log, sampled>>
  /\ pollFrame

(* ==================== Interrupt engine: registration ==================== *)
(* HCSR04_Interrupt::~HCSR04_Interrupt: detachInterrupt on the pin that     *)
(* getEchoPin() returns at destruction, then s_instance = 0.                *)
HCSR04_Interrupt_dtor ==
  /\ engine = "interrupt" /\ pc = "idle"
  /\ isr_pins' = isr_pins \ {m_echo_pin}
  /\ attached' = (isr_pins' # {})
  /\ s_instance' = "null"
  /\ pc' = "destroyed"
  /\ op' = Call("dtor", 0)
  /\ UNCHANGED <<engine, cfgVars, m_last_shot_us, edgeVars, clock, echo,
                 isr_pending, localVars, status, out_cm, trig_log, sampled,
                 ghostVars, elapsed_true, saw_level>>

(* the level of pin p changes: the echo line if p is the echo pin; the      *)
(* CHANGE interrupt is flagged if the callback is registered on p           *)
PinEdge(p) ==
  /\ p = m_echo_pin \/ p \in isr_pins
  /\ echo' = IF p = m_echo_pin THEN (IF echo = LOW THEN HIGH ELSE LOW) ELSE echo
  /\ isr_pending' = (isr_pending \/ p \in isr_pins)
  /\ UNCHANGED <<engine, cfgVars, m_last_shot_us, edgeVars, attached, clock,
                 pc, localVars, status, out_cm, op, trig_log, sampled,
                 ghostVars, elapsed_true, lifeVars, saw_level>>

(* echoChangeISR_ entered with s_instance == 0: line 109 reads the echo pin *)
(* through a null pointer, so the level lv it obtains is arbitrary          *)
echoChangeISR_null(lv) ==
  /\ engine = "interrupt" /\ isr_pending
  /\ s_instance = "null"
  /\ IsrBody(lv)
  /\ op' = Call("isr_null", 0)
  /\ UNCHANGED <<engine, cfgVars, m_last_shot_us, attached, clock, echo, pc,
                 localVars, status, out_cm, trig_log, sampled,
                 harvested, in_read, elapsed_true, lifeVars, saw_level>>

InitLife ==
  /\ InitCommon
  /\ engine = "interrupt"
  /\ m_trig_pin = 0 /\ m_echo_pin \in Pins \ {0}
  /\ m_timeout_us = HCSR04_DEFAULT_TIMEOUT_US
  /\ m_cm_per_us = HCSR04_CM_PER_US
  /\ m_min_cycle_us = HCSR04_DEFAULT_MIN_CYCLE_US
  /\ clock \in Clock

NextLife ==
  \/ IntBegin
  \/ \E p \in Pins : setTrigPin(p)
  \/ \E p \in Pins : setEchoPin(p)
  \/ HCSR04_Interrupt_dtor
  \/ \E p \in Pins : PinEdge(p)
  \/ echoChangeISR_
  \/ \E lv \in {LOW, HIGH} : echoChangeISR_null(lv)

SpecLife == InitLife /\ [][NextLife]_vars

(* C11: interrupt engine, one instance; for every sequence of begin(), pin  *)
(* setters and destruction, the destructor leaves the callback registered   *)
(* on no pin, and the callback is registered only while the back-reference  *)
(* points to the live instance.                                             *)
C11_DestroyDetaches ==
  /\ [][HCSR04_Interrupt_dtor => isr_pins' = {}]_vars
  /\ [](isr_pins # {} => s_instance = "this")

(* ===================== The two engines, read() unpreempted ============== *)
Init ==
  /\ InitCommon
  /\ engine \in {"polling", "interrupt"}
  /\ m_trig_pin = 0 /\ m_echo_pin = 1
  /\ m_timeout_us \in IF engine = "polling" THEN 1 .. MaxTimeout ELSE {MaxTimeout}
  /\ m_cm_per_us = HCSR04_CM_PER_US
  /\ m_min_cycle_us = MaxMinCycle
  /\ clock \in Clock

Next ==
  \/ Tick
  \/ EchoEdge
  \/ IntBegin
  \/ echoChangeISR_
  \/ \E d1 \in Delays : IntRead(d1)
  \/ PollBegin
  \/ \E d1 \in Delays, d2 \in Delays : PollReadStart(d1, d2)
  \/ PollRiseLoop
  \/ PollRiseExit
  \/ PollFallLoop
  \/ PollFallExit

Spec == Init /\ [][Next]_vars

IsIntRead == \E d1 \in Delays : IntRead(d1)
GuardDenies == USub(clock, m_last_shot_us) < m_min_cycle_us
IsPollDenied == PollReadStart(0, 0) /\ pc' = "idle"
IsPollReadStart == \E d1 \in Delays, d2 \in Delays : PollReadStart(d1, d2)
Distance(rise, fall) == <<USub(fall, rise) * m_cm_per_us>>

(* C1: interrupt engine; after a read() that armed a shot and a callback    *)
(* that then recorded a rise and a fall (distinct, nonzero timestamps), the *)
(* next read() returns OK with the distance of (fall - rise), whether or    *)
(* not it also arms a new shot.                                             *)
C1_NextReadReturnsResult ==
  [][ ( /\ IsIntRead
        /\ captured = "rise_fall"
        /\ s_rise_us # 0 /\ s_fall_us # 0 /\ s_rise_us # s_fall_us )
      => ( /\ status' = HCSR04_OK
           /\ out_cm' = Distance(s_rise_us, s_fall_us) )
    ]_vars

(* C3: polling engine; a read() called before the minimum cycle interval    *)
(* has elapsed since the last shot start (a shot was marked at a nonzero    *)
(* clock value) returns Busy.                                               *)
C3_PollingDeniedIsBusy ==
  [][ (IsPollDenied /\ GuardDenies /\ m_last_shot_us # 0)
      => status' = HCSR04_ERR_BUSY ]_vars

(* C7: in both engines read() writes the caller's output only when it       *)
(* returns OK; with any other status, and while a polling read() is still   *)
(* running, the output holds the value it had before the call.              *)
C7_OutputOnlyOnOk ==
  /\ (op.name = "read" /\ pc = "idle" /\ status # HCSR04_OK) => out_cm = Untouched
  /\ (pc # "idle") => out_cm = Untouched

(* a polling read() measured a zero high time: Bad-param, nothing written *)
C7_Witness ==
  /\ engine = "polling" /\ op.name = "read" /\ pc = "idle"
  /\ status = HCSR04_ERR_BAD_PARAM
  /\ sampled
  /\ out_cm = Untouched

(* C8: interrupt engine; once a read() has returned OK, every later read()  *)
(* returns Not-ready until the callback has recorded a new rise and a new   *)
(* fall.                                                                    *)
C8_ConsumedOnce ==
  [][ (IsIntRead /\ harvested /\ ~(new_rise /\ new_fall))
      => status' = HCSR04_ERR_NOT_READY ]_vars

(* after an OK, a new rise but no new fall: the read() answered Not-ready *)
C8_Witness ==
  /\ engine = "interrupt" /\ op.name = "read"
  /\ harvested /\ new_rise /\ ~new_fall
  /\ captured = "off"
  /\ status = HCSR04_ERR_NOT_READY

(* C9: interrupt engine; a read() the cycle guard denies writes nothing to  *)
(* the trigger line, keeps the last-shot timestamp and does not reset the   *)
(* edge-capture state, and still harvests: with both timestamps populated   *)
(* it returns the pending result (OK with the distance of fall - rise, or   *)
(* the conversion's Bad-param for a zero high time) and clears the two      *)
(* timestamps; otherwise it returns Not-ready and changes neither.          *)
C9_DeniedReadStillHarvests ==
  [][ (IsIntRead /\ GuardDenies) =>
        /\ trig_log' = <<>>
        /\ m_last_shot_us' = m_last_shot_us
        /\ s_waiting_rise' = s_waiting_rise
        /\ clock' = clock
        /\ IF s_rise_us # 0 /\ s_fall_us # 0
             THEN /\ s_rise_us' = 0 /\ s_fall_us' = 0
                  /\ IF s_fall_us # s_rise_us
                       THEN /\ status' = HCSR04_OK
                            /\ out_cm' = Distance(s_rise_us, s_fall_us)
                       ELSE /\ status' = HCSR04_ERR_BAD_PARAM
                            /\ out_cm' = Untouched
             ELSE /\ s_rise_us' = s_rise_us /\ s_fall_us' = s_fall_us
                  /\ status' = HCSR04_ERR_NOT_READY
                  /\ out_cm' = Untouched
    ]_vars

(* a denied read() returned a pending result *)
C9_Witness ==
  /\ engine = "interrupt" /\ op.name = "read"
  /\ captured = "off" /\ trig_log = <<>>
  /\ status = HCSR04_OK
  /\ out_cm # Untouched
  /\ s_rise_us = 0 /\ s_fall_us = 0

(* C10: polling engine; a read() the cycle guard denies drives no trigger   *)
(* write, takes no echo sample and changes neither the last-shot timestamp  *)
(* nor any other state; the LOW-HIGH-LOW sequence is driven only by a       *)
(* read() the guard permitted, after the shot start was marked.             *)
C10_PollingDeniedNoEffect ==
  [][ /\ (IsPollReadStart /\ GuardDenies) =>
           /\ trig_log' = <<>>
           /\ sampled' = FALSE
           /\ pc' = "idle"
           /\ UNCHANGED <<m_last_shot_us, cfgVars, edgeVars, attached, clock,
                          echo, isr_pending, localVars>>
      /\ (IsPollReadStart /\ ~GuardDenies) =>
           /\ trig_log' = <<"mark", LOW, HIGH, LOW>>
           /\ pc' = "rise_wait"
      /\ (engine = "polling" /\ ~IsPollReadStart) => trig_log' = trig_log
    ]_vars

(* a denied polling read() returned after an earlier shot *)
C10_Witness ==
  /\ engine = "polling" /\ op.name = "read" /\ pc = "idle"
  /\ status = DeniedStatus
  /\ trig_log = <<>> /\ ~sampled
  /\ USub(clock, m_last_shot_us) < m_min_cycle_us
  /\ m_last_shot_us # 0

(* C14: interrupt engine, callbacks only between whole read() calls; a      *)
(* read() that returns OK after the read() that armed the shot harvests a   *)
(* rise and then a fall that the callback recorded, in that order and       *)
(* nothing after them, since the arming reset: the reported high time is    *)
(* the width of one pulse.                                                  *)
C14_OnePulse ==
  [][ (IsIntRead /\ status' = HCSR04_OK /\ captured # "off")
      => captured = "rise_fall" ]_vars

(* C15: polling engine; read() returns Timeout-echo-start only if no echo   *)
(* sample of the rise wait read high, a sample that reads high records the  *)
(* rise at every clock value, 0 included, and ends the rise wait, and       *)
(* read() returns Timeout-echo-end only if no sample of the fall wait read  *)
(* low.                                                                     *)
C15_TimeoutMeansNoSample ==
  [][ /\ (PollRiseExit /\ pc' = "idle") => ~saw_level
      /\ (PollRiseLoop /\ echo = HIGH) => t_rise_us' # 0
      /\ (PollFallExit /\ status' = HCSR04_ERR_TIMEOUT_ECHO_END) => ~saw_level
    ]_vars

(* ================ Polling engine: read() runs to its end ================ *)
(* While read() spins the clock advances, and one pass of a wait loop takes *)
(* at most MaxDelay ticks: the clock is never further ahead of the loop's   *)
(* last micros() than that.                                                 *)
LoopTick ==
  /\ pc = "idle" \/ USub(clock, now_us) < MaxDelay
  /\ Tick

InitPoll == Init /\ engine = "polling"

NextPoll ==
  \/ LoopTick
  \/ EchoEdge
  \/ PollBegin
  \/ \E d1 \in Delays, d2 \in Delays : PollReadStart(d1, d2)
  \/ PollRiseLoop
  \/ PollRiseExit
  \/ PollFallLoop
  \/ PollFallExit

(* read() blocks: the processor keeps executing its loops, the clock runs *)
SpecPollLive ==
  /\ InitPoll /\ [][NextPoll]_vars
  /\ WF_vars(LoopTick)
  /\ WF_vars(PollRiseLoop) /\ WF_vars(PollRiseExit)
  /\ WF_vars(PollFallLoop) /\ WF_vars(PollFallExit)

TerminalStatus ==
  {HCSR04_OK, HCSR04_ERR_BAD_PARAM, HCSR04_ERR_BAD_STATE,
   HCSR04_ERR_TIMEOUT_ECHO_START, HCSR04_ERR_TIMEOUT_ECHO_END}

(* C16: polling engine; the rise wait and the fall wait share the window    *)
(* that starts at t_start_us, which stays put while read() runs; every      *)
(* echo sample belongs to a clock reading less than the timeout after       *)
(* t_start_us; and with the clock advancing every read() returns a status,  *)
(* whatever the echo line does.                                             *)
C16_ReadTerminates ==
  /\ [][ /\ (pc # "idle" /\ pc' # "idle") => t_start_us' = t_start_us
         /\ (PollRiseLoop \/ PollFallLoop) =>
               USub(now_us, t_start_us) < m_timeout_us
         /\ (pc' = "fall_wait") => USub(t_rise_us', t_start_us') < m_timeout_us
     ]_vars
  /\ (pc # "idle") ~> (pc = "idle" /\ op.name = "read"
                                   /\ status \in TerminalStatus)

(* the rise was seen and the same window ran out in the fall wait *)
C16_Witness ==
  /\ engine = "polling" /\ pc = "idle" /\ op.name = "read"
  /\ status = HCSR04_ERR_TIMEOUT_ECHO_END
  /\ m_timeout_us = MaxTimeout

(* C19: interrupt engine; read() returns OK, Not-ready or Bad-param and     *)
(* never Busy: a read() that arms a shot returns Not-ready, and so does a   *)
(* read() the guard denies while the two timestamps are not both set.       *)
C19_NeverBusy ==
  [][ IsIntRead =>
        /\ status' \in {HCSR04_OK, HCSR04_ERR_NOT_READY, HCSR04_ERR_BAD_PARAM}
        /\ (~GuardDenies) => status' = HCSR04_ERR_NOT_READY
        /\ (GuardDenies /\ (s_rise_us = 0 \/ s_fall_us = 0))
              => status' = HCSR04_ERR_NOT_READY
    ]_vars

(* the guard denied a read() while the armed shot had its rise only *)
C19_Witness ==
  /\ engine = "interrupt" /\ op.name = "read"
  /\ trig_log = <<>>
  /\ s_rise_us # 0 /\ s_fall_us = 0 /\ ~s_waiting_rise
  /\ status = HCSR04_ERR_NOT_READY

(* C20: the callback records the rise and awaits the fall only when it      *)
(* awaits a rise and the level is high, records the fall and awaits a rise  *)
(* only when it awaits a fall and the level is low, and otherwise leaves    *)
(* the flag and both timestamps as they are.                                *)
C20_IsrCases ==
  [][ echoChangeISR_ =>
        IF s_waiting_rise /\ echo = HIGH
          THEN /\ s_rise_us' = clock /\ s_waiting_rise' = FALSE
               /\ s_fall_us' = s_fall_us
          ELSE IF (~s_waiting_rise) /\ echo = LOW
            THEN /\ s_fall_us' = clock /\ s_waiting_rise' = TRUE
                 /\ s_rise_us' = s_rise_us
            ELSE UNCHANGED <<s_waiting_rise, s_rise_us, s_fall_us>>
    ]_vars

(* the callback has recorded a rise and then the fall after it *)
C20_Witness ==
  /\ engine = "interrupt" /\ captured = "rise_fall"
  /\ s_waiting_rise /\ ~isr_pending
  /\ s_rise_us # 0 /\ s_fall_us # 0 /\ s_fall_us # s_rise_us

(* ============ Interrupt engine, read() preempted by the callback ======== *)
(* read() as the steps the callback can fall between: every access to the   *)
(* volatile statics is a step of its own; code that touches only locals,    *)
(* the clock or the trigger line is joined to the access before it.         *)
(* t_rise_us, t_fall_us hold the first value line 85 loads.                 *)
isrReadFrame ==
  UNCHANGED <<engine, cfgVars, attached, echo, isr_pending, op, sampled,
              captured, harvested, new_rise, new_fall, t_start_us, now_us,
              elapsed_true, lifeVars, saw_level>>

(* lines 62-67: status = canStartShot_(), markShotStart_() *)
StepGuard ==
  /\ engine = "interrupt" /\ pc = "idle"
  /\ status' = CanStartShot(clock, m_last_shot_us, m_min_cycle_us)
  /\ IF status' = HCSR04_OK
       THEN /\ m_last_shot_us' = clock
            /\ trig_log' = <<"mark">>
            /\ pc' = "reset_flag"
       ELSE /\ m_last_shot_us' = m_last_shot_us
            /\ trig_log' = <<>>
            /\ pc' = "check_rise"
  /\ out_cm' = Untouched
  /\ in_read' = {}
  /\ UNCHANGED <<edgeVars, clock, t_rise_us, t_fall_us>>
  /\ isrReadFrame

(* line 70: s_waiting_rise = true *)
StepResetFlag ==
  /\ pc = "reset_flag"
  /\ s_waiting_rise' = TRUE
  /\ pc' = "reset_rise"
  /\ UNCHANGED <<m_last_shot_us, s_rise_us, s_fall_us, clock, status, out_cm,
                 trig_log, in_read, t_rise_us, t_fall_us>>
  /\ isrReadFrame

(* line 71: s_rise_us = 0 *)
StepResetRise ==
  /\ pc = "reset_rise"
  /\ s_rise_us' = 0
  /\ pc' = "reset_fall"
  /\ UNCHANGED <<m_last_shot_us, s_waiting_rise, s_fall_us, clock, status,
                 out_cm, trig_log, in_read, t_rise_us, t_fall_us>>
  /\ isrReadFrame

(* lines 72-79: s_fall_us = 0, then the trigger pulse and its delays *)
StepResetFall(d1) ==
  /\ pc = "reset_fall"
  /\ s_fall_us' = 0
  /\ trig_log' = trig_log \o <<"reset">> \o TrigPulse
  /\ clock' = UAdd(clock, d1)
  /\ pc' = "check_rise"
  /\ UNCHANGED <<m_last_shot_us, s_waiting_rise, s_rise_us, status, out_cm,
                 in_read, t_rise_us, t_fall_us>>
  /\ isrReadFrame

(* line 83, left operand: s_rise_us != 0; lines 99-102 when it is zero *)
StepCheckRise ==
  /\ pc = "check_rise"
  /\ IF s_rise_us # 0
       THEN /\ pc' = "check_fall" /\ status' = status
            /\ in_read' = in_read \ {"rise"}
       ELSE /\ pc' = "idle" /\ status' = HCSR04_ERR_NOT_READY
            /\ in_read' = {}
  /\ UNCHANGED <<m_last_shot_us, edgeVars, clock, out_cm, trig_log, t_rise_us,
                 t_fall_us>>
  /\ isrReadFrame

(* line 83, right operand: s_fall_us != 0 *)
StepCheckFall ==
  /\ pc = "check_fall"
  /\ IF s_fall_us # 0
       THEN /\ pc' = "load" /\ status' = status
            /\ in_read' = in_read \ {"fall"}
       ELSE /\ pc' = "idle" /\ status' = HCSR04_ERR_NOT_READY
            /\ in_read' = {}
  /\ UNCHANGED <<m_last_shot_us, edgeVars, clock, out_cm, trig_log, t_rise_us,
                 t_fall_us>>
  /\ isrReadFrame

(* lines 85-91 once both operands are loaded: echo_high_us, timeUsToCm_ *)
Converted(rise, fall) ==
  LET conv == TimeUsToCm(USub(fall, rise), m_cm_per_us)
  IN  /\ status' = conv.status
      /\ out_cm' = OutWrite(conv.status, conv.cm, out_cm)
      /\ t_rise_us' = 0 /\ t_fall_us' = 0
      /\ pc' = "clear_rise"

(* line 85: the two volatile loads of s_fall_us - s_rise_us, in either order *)
StepLoadFall ==
  /\ pc \in {"load", "load_fall"}
  /\ IF pc = "load"
       THEN /\ t_fall_us' = s_fall_us /\ pc' = "load_rise"
            /\ UNCHANGED <<t_rise_us, status, out_cm>>
       ELSE Converted(t_rise_us, s_fall_us)
  /\ UNCHANGED <<m_last_shot_us, edgeVars, clock, trig_log, in_read>>
  /\ isrReadFrame

StepLoadRise ==
  /\ pc \in {"load", "load_rise"}
  /\ IF pc = "load"
       THEN /\ t_rise_us' = s_rise_us /\ pc' = "load_fall"
            /\ UNCHANGED <<t_fall_us, status, out_cm>>
       ELSE Converted(s_rise_us, t_fall_us)
  /\ UNCHANGED <<m_last_shot_us, edgeVars, clock, trig_log, in_read>>
  /\ isrReadFrame

(* line 94: s_rise_us = 0 *)
StepClearRise ==
  /\ pc = "clear_rise"
  /\ s_rise_us' = 0
  /\ pc' = "clear_fall"
  /\ UNCHANGED <<m_last_shot_us, s_waiting_rise, s_fall_us, clock, status,
                 out_cm, trig_log, in_read, t_rise_us, t_fall_us>>
  /\ isrReadFrame

(* line 95: s_fall_us = 0, then return *)
StepClearFall ==
  /\ pc = "clear_fall"
  /\ s_fall_us' = 0
  /\ pc' = "idle"
  /\ in_read' = {}
  /\ UNCHANGED <<m_last_shot_us, s_waiting_rise, s_rise_us, clock, status,
                 out_cm, trig_log, t_rise_us, t_fall_us>>
  /\ isrReadFrame

(* the callback runs between two steps of read() *)
IsrPreempt ==
  /\ engine = "interrupt" /\ isr_pending /\ pc # "idle"
  /\ IsrStep
  /\ in_read' = in_read \cup
       (IF IsrRecordsRise(s_waiting_rise, echo) THEN {"rise"} ELSE {}) \cup
       (IF IsrRecordsFall(s_waiting_rise, echo) THEN {"fall"} ELSE {})
  /\ UNCHANGED <<engine, cfgVars, m_last_shot_us, attached, clock, echo, pc,
                 localVars, status, out_cm, op, trig_log, sampled, harvested,
                 elapsed_true, lifeVars, saw_level>>

InitIsr ==
  /\ InitCommon
  /\ engine = "interrupt"
  /\ m_trig_pin = 0 /\ m_echo_pin = 1
  /\ m_timeout_us = MaxTimeout
  /\ m_cm_per_us = HCSR04_CM_PER_US
  /\ m_min_cycle_us = MaxMinCycle
  /\ clock \in Clock

NextIsr ==
  \/ Tick
  \/ EchoEdge
  \/ IntBegin
  \/ echoChangeISR_
  \/ IsrPreempt
  \/ StepGuard
  \/ StepResetFlag
  \/ StepResetRise
  \/ \E d1 \in Delays : StepResetFall(d1)
  \/ StepCheckRise
  \/ StepCheckFall
  \/ StepLoadFall
  \/ StepLoadRise
  \/ StepClearRise
  \/ StepClearFall

SpecIsr == InitIsr /\ [][NextIsr]_vars

(* C2: with the callback free to run between any two steps of read(), the   *)
(* harvest is an atomic handoff: read() converts the two timestamps its     *)
(* readiness check observed and clears exactly those, and neither its reset *)
(* nor its clear erases a timestamp or a flag the callback wrote during     *)
(* that read() after read() last looked at it.                              *)
C2_AtomicHandoff ==
  [][ /\ (StepLoadRise \/ StepClearRise) => "rise" \notin in_read
      /\ (StepLoadFall \/ StepClearFall) => "fall" \notin in_read
      /\ (StepResetFlag \/ StepResetRise) => "rise" \notin in_read
      /\ (\E d1 \in Delays : StepResetFall(d1)) => "fall" \notin in_read
    ]_vars

====
